---- MODULE Spec2Model ----
(***************************************************************************)
(* Model of inputgeneration.c: main() resolves the grid parameters from    *)
(* argv, allocates a buffer of OBJ_BUFFER layers, opens the output file,   *)
(* writes the 16-int header (unless built with -DRAW) and then generates   *)
(* and appends the voxel grid chunk by chunk.                              *)
(*                                                                         *)
(* Integers are unbounded here; every configuration explored keeps all C   *)
(* int expressions far inside the 32-bit range, so the model says nothing  *)
(* about runs in which n * gl_voxelXDim, 6 * gl_objectSideLenght or        *)
(* gl_nVoxel[X] * gl_nVoxel[Z] * nOfSlices overflow.                       *)
(***************************************************************************)
EXTENDS Integers, Sequences, FiniteSets, TLC

\* ------------------------------------------------------------------ bounds
\* longest text passed as the shape selector argv[2]
MaxArgLen == 2
\* largest one-digit pixel count passed as argv[3] (at most 9)
MaxPixels == 5
\* number of fwrite calls per run that may return short
MaxShortWrites == 1

\* ------------------------------------------------------- program constants
OBJ_BUFFER == 100
EXIT_FAILURE == 1
SizeofInt == 4
SizeofDouble == 8
HeaderInts == 16
DEFAULT_WORK_SIZE == 2352

\* axis indices of gl_nVoxel and gl_nPlanes
X == 0
Y == 1
Z == 2
Axes == {X, Y, Z}

\* ------------------------------------------------------------- C helpers
\* C integer division truncates toward zero (the divisor is a positive
\* voxel dimension).
CDiv(a, b) == IF a >= 0 THEN a \div b ELSE -((-a) \div b)

Digits == <<"0", "1", "2", "3", "4", "5", "6", "7", "8", "9">>

IsDigit(c) == \E k \in 1..Len(Digits) : Digits[k] = c

DigitVal(c) == (CHOOSE k \in 1..Len(Digits) : Digits[k] = c) - 1

IsSpace(c) == c \in {" ", "\t", "\n"}

RECURSIVE SkipSpace(_, _)
SkipSpace(s, i) ==
    IF i <= Len(s) /\ IsSpace(s[i]) THEN SkipSpace(s, i + 1) ELSE i

RECURSIVE ParseDigits(_, _, _)
ParseDigits(s, i, acc) ==
    IF i > Len(s) \/ ~IsDigit(s[i])
    THEN acc
    ELSE ParseDigits(s, i + 1, 10 * acc + DigitVal(s[i]))

\* atoi: optional white space, optional sign, then the longest run of
\* decimal digits; 0 when there is none.  A text is a tuple of characters.
Atoi(s) ==
    LET i == SkipSpace(s, 1) IN
    IF i <= Len(s) /\ s[i] = "-" THEN -ParseDigits(s, i + 1, 0)
    ELSE IF i <= Len(s) /\ s[i] = "+" THEN ParseDigits(s, i + 1, 0)
    ELSE ParseDigits(s, i, 0)

RECURSIVE GCD(_, _)
GCD(a, b) == IF b = 0 THEN a ELSE GCD(b, a % b)

RECURSIVE IsPow2(_)
IsPow2(k) == k = 1 \/ (k > 1 /\ k % 2 = 0 /\ IsPow2(k \div 2))

\* (int)(m * ((double)num / den)) for an int m and positive ints num, den.
\* The quotient num/den is a double: it is exact when the reduced
\* denominator is a power of two, and rounded otherwise.  With a rounded
\* quotient the product of an exactly integral result may fall just below
\* that integer, so the truncation yields it or its neighbour toward zero.
\* The operator returns the set of values the conversion can produce.
ScaleByDouble(m, num, den) ==
    LET exact == CDiv(m * num, den)
        integral == (m * num) % den = 0
        dyadic == IsPow2(den \div GCD(num, den))
    IN  IF dyadic \/ ~integral \/ exact = 0
        THEN {exact}
        ELSE {exact, IF exact > 0 THEN exact - 1 ELSE exact + 1}

\* ------------------------------------------------------ build and inputs
\* The macros of common.h: the defaults of every gl_ variable.
Defaults(pd, osl, dsl, vx, vy, vz) ==
    [PIXEL_DIM |-> pd, ANGULAR_TRAJECTORY |-> 90,
     POSITIONS_ANGULAR_DISTANCE |-> 15,
     OBJECT_SIDE_LENGTH |-> osl, DETECTOR_SIDE_LENGTH |-> dsl,
     DISTANCE_OBJECT_DETECTOR |-> CDiv(3 * osl, 2),
     DISTANCE_OBJECT_SOURCE |-> 6 * osl,
     VOXEL_X_DIM |-> vx, VOXEL_Y_DIM |-> vy, VOXEL_Z_DIM |-> vz]

\* cubic voxels of side 1, 3 voxels and 3 pixels per side
UnitGrid == Defaults(1, 3, 3, 1, 1, 1)
\* flat voxels: 50 layers per voxel width, so that nVoxel[Y] passes OBJ_BUFFER
TallGrid == Defaults(1, 150, 3, 50, 1, 50)
\* voxels wider than the object along x for small objects: nVoxel[X] = 0
WideVoxel == Defaults(1, 3, 3, 4, 1, 1)
\* scale factor 2/3, not representable as a double
ThirdsGrid == Defaults(1, 2, 3, 1, 1, 1)

\* A build fixes the macros: OBJ_BUFFER (K), RAW and the defaults.  The
\* shipped chunk capacity is OBJ_BUFFER; capacities 1 and 2 are builds with
\* the macro changed, explored on grids of a few layers.
Builds ==
    { [K |-> k, RAW |-> r, defaults |-> d] :
        k \in {OBJ_BUFFER}, r \in BOOLEAN,
        d \in {UnitGrid, TallGrid, WideVoxel, ThirdsGrid} }
    \cup
    { [K |-> k, RAW |-> r, defaults |-> UnitGrid] :
        k \in {1, 2}, r \in BOOLEAN }

N_PIXEL_ALONG_SIDE(d) == d.DETECTOR_SIDE_LENGTH \div d.PIXEL_DIM

\* Characters and texts of the command line.
SelectorChars == {"0", "1", "2", "3", "-", "a"}

TextsUpTo(chars, len) == UNION { [1..k -> chars] : k \in 0..len }

SelectorTexts == TextsUpTo(SelectorChars, MaxArgLen)

PixelTexts ==
    { <<Digits[k + 1]>> : k \in 0..MaxPixels }
    \cup { <<"-", "1">>, <<"x">>, <<"2", "x">> }

ProgName == <<"p">>
FileName == <<"o">>

\* argv[0..argc-1] for argc in 1..5, as a function on 0..argc-1.  Every
\* selector text is tried with the default grid, and every pixel count with
\* the selectors of one character.
CommandLines ==
    { [i \in 0..0 |-> ProgName] }
    \cup { [i \in 0..1 |-> IF i = 0 THEN ProgName ELSE FileName] }
    \cup { [i \in 0..2 |-> CASE i = 0 -> ProgName [] i = 1 -> FileName
                                [] OTHER -> t] : t \in SelectorTexts }
    \cup { [i \in 0..3 |-> CASE i = 0 -> ProgName [] i = 1 -> FileName
                                [] i = 2 -> <<c>> [] OTHER -> p] :
            c \in SelectorChars, p \in PixelTexts }
    \cup { [i \in 0..4 |-> CASE i = 0 -> ProgName [] i = 1 -> FileName
                                [] i = 2 -> <<"3">> [] i = 3 -> <<"1">>
                                [] OTHER -> <<"x">>] }

\* ------------------------------------------------------------------ state
VARIABLES
    build,        \* the macros this binary was compiled with
    argv,         \* the command line, argv[0..argc-1]
    pc,           \* position in main
    objectType,   \* main's objectType
    n,            \* main's n
    gl,           \* the gl_ globals
    grid,         \* the buffer main allocates
    stream,       \* contents of the output file
    headerLength, \* main's headerLength
    slice,        \* loop variable
    nOfSlices,    \* layers of the current chunk
    exitStatus,   \* status the process ended with, once pc = "exited"
    printed,      \* messages printed, in order
    trace         \* library and classifier calls made, in order

vars == <<build, argv, pc, objectType, n, gl, grid, stream, headerLength,
          slice, nOfSlices, exitStatus, printed, trace>>

argc == Cardinality(DOMAIN argv)

\* The globals as initialised at lines 91-108; N_VOXEL_* and N_PLANES_* are
\* the quotients the comment above gl_nVoxel prescribes.
InitialGlobals(d) ==
    [pixelDim |-> d.PIXEL_DIM,
     angularTrajectory |-> d.ANGULAR_TRAJECTORY,
     positionsAngularDistance |-> d.POSITIONS_ANGULAR_DISTANCE,
     objectSideLenght |-> d.OBJECT_SIDE_LENGTH,
     detectorSideLength |-> d.DETECTOR_SIDE_LENGTH,
     distanceObjectDetector |-> d.DISTANCE_OBJECT_DETECTOR,
     distanceObjectSource |-> d.DISTANCE_OBJECT_SOURCE,
     voxelXDim |-> d.VOXEL_X_DIM,
     voxelYDim |-> d.VOXEL_Y_DIM,
     voxelZDim |-> d.VOXEL_Z_DIM,
     nVoxel |-> [i \in Axes |->
                   CASE i = X -> CDiv(d.OBJECT_SIDE_LENGTH, d.VOXEL_X_DIM)
                     [] i = Y -> CDiv(d.OBJECT_SIDE_LENGTH, d.VOXEL_Y_DIM)
                     [] OTHER -> CDiv(d.OBJECT_SIDE_LENGTH, d.VOXEL_Z_DIM)],
     nPlanes |-> [i \in Axes |->
                   CASE i = X -> CDiv(d.OBJECT_SIDE_LENGTH, d.VOXEL_X_DIM) + 1
                     [] i = Y -> CDiv(d.OBJECT_SIDE_LENGTH, d.VOXEL_Y_DIM) + 1
                     [] OTHER -> CDiv(d.OBJECT_SIDE_LENGTH, d.VOXEL_Z_DIM) + 1]]

\* the buffer before and without an allocation
NoGrid == [null |-> TRUE, capacity |-> 0, shape |-> "none", first |-> 0,
           filled |-> 0]

Init ==
    /\ build \in Builds
    /\ argv \in CommandLines
    /\ pc = "main"
    /\ objectType = 0
    /\ n = DEFAULT_WORK_SIZE
    /\ gl = InitialGlobals(build.defaults)
    /\ grid = NoGrid
    /\ stream = [header |-> <<>>, data |-> <<>>]
    /\ headerLength = 0
    /\ slice = 0
    /\ nOfSlices = 0
    /\ exitStatus = 0
    /\ printed = <<>>
    /\ trace = <<>>

\* exit(status) and return status from main
Exit(status, msg) ==
    /\ pc' = "exited"
    /\ exitStatus' = status
    /\ printed' = Append(printed, [msg |-> msg])

\* ------------------------------------------------- argument handling
\* lines 152-159: wrong argument count
Usage ==
    /\ pc = "main"
    /\ argc > 4 \/ argc < 2
    /\ Exit(EXIT_FAILURE, "Usage")
    /\ UNCHANGED <<build, argv, objectType, n, gl, grid, stream,
                   headerLength, slice, nOfSlices, trace>>

\* lines 160-165
ParseArgs ==
    /\ pc = "main"
    /\ ~(argc > 4 \/ argc < 2)
    /\ objectType' = IF argc > 2 THEN Atoi(argv[2]) ELSE objectType
    /\ pc' = "resolve"
    /\ UNCHANGED <<build, argv, n, gl, grid, stream, headerLength, slice,
                   nOfSlices, exitStatus, printed, trace>>

\* lines 169-172, given the value osl the double expression converts to
PixelCountOverride(g, pixels, osl) ==
    [g EXCEPT !.objectSideLenght = osl,
              !.detectorSideLength = pixels * g.pixelDim,
              !.distanceObjectDetector = CDiv(3 * osl, 2),
              !.distanceObjectSource = 6 * osl]

\* the grid computed with the x dimension on every axis
ComputeGrid_xDimOnly(g) ==
    [g EXCEPT
       !.nVoxel = [i \in Axes |-> CDiv(g.objectSideLenght, g.voxelXDim)],
       !.nPlanes = [i \in Axes |->
                      CDiv(g.objectSideLenght, g.voxelXDim) + 1]]

\* lines 175-181
ComputeGrid(g) ==
    [g EXCEPT
       !.nVoxel = [i \in Axes |->
                     CASE i = X -> CDiv(g.objectSideLenght, g.voxelXDim)
                       [] i = Y -> CDiv(g.objectSideLenght, g.voxelYDim)
                       [] OTHER -> CDiv(g.objectSideLenght, g.voxelZDim)],
       !.nPlanes = [i \in Axes |->
                     CASE i = X -> CDiv(g.objectSideLenght, g.voxelXDim) + 1
                       [] i = Y -> CDiv(g.objectSideLenght, g.voxelYDim) + 1
                       [] OTHER -> CDiv(g.objectSideLenght, g.voxelZDim) + 1]]

\* lines 166-181 with the pixel count given
ResolveFromPixels ==
    /\ pc = "resolve"
    /\ argc > 3
    /\ n' = Atoi(argv[3])
    /\ \E osl \in ScaleByDouble(n' * gl.voxelXDim,
                                 build.defaults.OBJECT_SIDE_LENGTH,
                                 build.defaults.VOXEL_X_DIM
                                   * N_PIXEL_ALONG_SIDE(build.defaults)) :
          gl' = ComputeGrid(PixelCountOverride(gl, n', osl))
    /\ pc' = "malloc"
    /\ UNCHANGED <<build, argv, objectType, grid, stream, headerLength,
                   slice, nOfSlices, exitStatus, printed, trace>>

\* lines 166-181 without it
ResolveDefaults ==
    /\ pc = "resolve"
    /\ ~(argc > 3)
    /\ gl' = ComputeGrid(gl)
    /\ pc' = "malloc"
    /\ UNCHANGED <<build, argv, objectType, n, grid, stream, headerLength,
                   slice, nOfSlices, exitStatus, printed, trace>>

\* ------------------------------------------------- buffer and file
\* line 184: number of doubles requested from malloc
GridElements(g, k) == g.nVoxel[X] * g.nVoxel[Z] * k

\* line 184: malloc succeeds or returns NULL; the result is not tested
Malloc ==
    /\ pc = "malloc"
    /\ \E ok \in BOOLEAN :
          /\ grid' = IF ok
                     THEN [null |-> FALSE,
                           capacity |-> GridElements(gl, build.K),
                           shape |-> "indeterminate", first |-> 0,
                           filled |-> 0]
                     ELSE NoGrid
          /\ trace' = Append(trace, [op |-> "malloc", ok |-> ok])
    /\ pc' = "fopen"
    /\ UNCHANGED <<build, argv, objectType, n, gl, stream, headerLength,
                   slice, nOfSlices, exitStatus, printed>>

\* lines 189-193, fopen succeeds: the file is created empty
FopenOk ==
    /\ pc = "fopen"
    /\ stream' = [header |-> <<>>, data |-> <<>>]
    /\ trace' = Append(trace, [op |-> "fopen", ok |-> TRUE])
    /\ pc' = IF build.RAW THEN "loop" ELSE "header"
    /\ UNCHANGED <<build, argv, objectType, n, gl, grid, headerLength,
                   slice, nOfSlices, exitStatus, printed>>

\* lines 189-193, fopen fails
FopenFails ==
    /\ pc = "fopen"
    /\ trace' = Append(trace, [op |-> "fopen", ok |-> FALSE])
    /\ Exit(2, "Unable to open file!")
    /\ UNCHANGED <<build, argv, objectType, n, gl, grid, stream,
                   headerLength, slice, nOfSlices>>

\* number of fwrite calls so far that returned less than requested
ShortWrites(t) ==
    Cardinality({ i \in 1..Len(t) :
                    t[i].op = "fwrite" /\ t[i].written < t[i].requested })

\* values fwrite may return for a request of count elements: count, or on
\* an error any smaller number (none, one or all but one written)
FwriteResults(count, t) ==
    {count} \cup
    (IF ShortWrites(t) < MaxShortWrites
     THEN {0, 1, count - 1} \cap (0..(count - 1))
     ELSE {})

\* bytes in the file
FileSize(st) ==
    LET RECURSIVE Sum(_)
        Sum(q) == IF q = <<>> THEN 0 ELSE Head(q).count + Sum(Tail(q))
    IN  SizeofInt * Len(st.header) + SizeofDouble * Sum(st.data)

\* lines 117-133
SetUp(g) ==
    <<g.pixelDim, g.angularTrajectory, g.positionsAngularDistance,
      g.objectSideLenght, g.detectorSideLength, g.distanceObjectDetector,
      g.distanceObjectSource, g.voxelXDim, g.voxelYDim, g.voxelZDim,
      g.nVoxel[0], g.nVoxel[1], g.nVoxel[2],
      g.nPlanes[0], g.nPlanes[1], g.nPlanes[2]>>

\* writeSetUp returning the number of ints written instead of bytes
WriteSetUpReturn_items(r) == r

\* lines 135-138: what writeSetUp returns when fwrite returned r
WriteSetUpReturn(r) == IF r = 0 THEN 0 ELSE HeaderInts * SizeofInt

\* lines 195-204 and writeSetUp (not compiled with -DRAW)
WriteHeader ==
    /\ pc = "header"
    /\ \E r \in FwriteResults(Len(SetUp(gl)), trace) :
          /\ stream' = [stream EXCEPT !.header = SubSeq(SetUp(gl), 1, r)]
          /\ trace' = Append(trace,
                [op |-> "fwrite", what |-> "header", offset |-> FileSize(stream),
                 requested |-> Len(SetUp(gl)), written |-> r])
          /\ headerLength' = WriteSetUpReturn(r)
          /\ IF headerLength' = 0
             THEN Exit(3, "Unable to write on file!")
             ELSE pc' = "loop" /\ UNCHANGED <<exitStatus, printed>>
    /\ UNCHANGED <<build, argv, objectType, n, gl, grid, slice, nOfSlices>>

\* ------------------------------------------------- generation loop
\* the loop condition with <= for <
LoopCond_inclusive(sl, g) == sl <= g.nVoxel[Y]

\* line 207: loop condition
LoopCond(sl, g) == sl < g.nVoxel[Y]

\* the chunk length without the shorter last chunk
NOfSlices_alwaysFull(sl, g, k) == k

\* lines 210-214
NOfSlices(sl, g, k) ==
    IF g.nVoxel[Y] - sl < k THEN g.nVoxel[Y] - sl ELSE k

\* line 207: the increment
NextSlice(sl, k) == sl + k

\* the switch with cases 1 and 2 exchanged
ShapeOf_swapped(type) ==
    CASE type = 1 -> "Sphere"
      [] type = 2 -> "CubeWithSphere"
      [] OTHER -> "Cube"

\* lines 217-227: the generator the switch selects
ShapeOf(type) ==
    CASE type = 1 -> "CubeWithSphere"
      [] type = 2 -> "Sphere"
      [] OTHER -> "Cube"

\* every chunk generated as if it were the first
GenerateOffset_chunkRelative(sl) == 0

\* lines 219, 222, 225: the layer offset handed to the generator
GenerateOffset(sl) == sl

\* line 229: number of doubles handed to fwrite
WriteCount(g, nSl) == g.nVoxel[X] * g.nVoxel[Z] * nSl

\* generate*Slice of voxel.c: fills the start of the buffer with the values
\* of layers offset .. offset + nSl - 1, x fastest, then z, then y.  A value
\* is a function of the shape and of the voxel's absolute position, so a
\* filled buffer is described by the shape, the linear index of its first
\* voxel and the number of voxels.
GenerateSlice(buf, shape, nSl, offset, g) ==
    [buf EXCEPT !.shape = shape,
                !.first = offset * g.nVoxel[X] * g.nVoxel[Z],
                !.filled = nSl * g.nVoxel[X] * g.nVoxel[Z]]

\* The data part of the file is a sequence of runs of consecutive voxels
\* of one shape; appending a run that continues the last one extends it.
AppendRun(data, run) ==
    IF run.count = 0 THEN data
    ELSE IF /\ data # <<>>
            /\ data[Len(data)].shape = run.shape
            /\ data[Len(data)].first + data[Len(data)].count = run.first
         THEN [data EXCEPT ![Len(data)].count = @ + run.count]
         ELSE Append(data, run)

\* fwrite of the first r doubles of the buffer; doubles past the filled
\* part are whatever the buffer held
AppendDoubles(data, buf, r) ==
    IF r <= buf.filled
    THEN AppendRun(data, [shape |-> buf.shape, first |-> buf.first,
                          count |-> r])
    ELSE AppendRun(AppendRun(data, [shape |-> buf.shape, first |-> buf.first,
                                    count |-> buf.filled]),
                   [shape |-> "indeterminate", first |-> 0,
                    count |-> r - buf.filled])

\* lines 207-214: another chunk is due
LoopEnter ==
    /\ pc = "loop"
    /\ LoopCond(slice, gl)
    /\ nOfSlices' = NOfSlices(slice, gl, build.K)
    /\ pc' = "generate"
    /\ UNCHANGED <<build, argv, objectType, n, gl, grid, stream,
                   headerLength, slice, exitStatus, printed, trace>>

\* line 207: the loop ends
LoopExit ==
    /\ pc = "loop"
    /\ ~LoopCond(slice, gl)
    /\ pc' = "summary"
    /\ UNCHANGED <<build, argv, objectType, n, gl, grid, stream,
                   headerLength, slice, nOfSlices, exitStatus, printed,
                   trace>>

\* lines 216-227: the generator is called on the buffer
Generate ==
    /\ pc = "generate"
    /\ ~(grid.null /\ WriteCount(gl, nOfSlices) > 0)
    /\ grid' = IF grid.null THEN grid
               ELSE GenerateSlice(grid, ShapeOf(objectType), nOfSlices,
                                  GenerateOffset(slice), gl)
    /\ trace' = Append(trace,
          [op |-> "generate", shape |-> ShapeOf(objectType),
           offset |-> GenerateOffset(slice), nOfSlices |-> nOfSlices,
           null |-> grid.null])
    /\ pc' = "fwrite"
    /\ UNCHANGED <<build, argv, objectType, n, gl, stream, headerLength,
                   slice, nOfSlices, exitStatus, printed>>

\* lines 216-227 when malloc had returned NULL and there are voxels to
\* store: the generator stores through the null pointer and the process
\* is killed
GenerateTrap ==
    /\ pc = "generate"
    /\ grid.null /\ WriteCount(gl, nOfSlices) > 0
    /\ trace' = Append(trace,
          [op |-> "generate", shape |-> ShapeOf(objectType),
           offset |-> GenerateOffset(slice), nOfSlices |-> nOfSlices,
           null |-> TRUE])
    /\ pc' = "crashed"
    /\ UNCHANGED <<build, argv, objectType, n, gl, grid, stream,
                   headerLength, slice, nOfSlices, exitStatus, printed>>

\* lines 229-233
WriteChunk ==
    /\ pc = "fwrite"
    /\ \E r \in FwriteResults(WriteCount(gl, nOfSlices), trace) :
          /\ stream' = [stream EXCEPT !.data = AppendDoubles(@, grid, r)]
          /\ trace' = Append(trace,
                [op |-> "fwrite", what |-> "data", offset |-> FileSize(stream),
                 requested |-> WriteCount(gl, nOfSlices), written |-> r,
                 slice |-> slice, nOfSlices |-> nOfSlices])
          /\ IF r = 0
             THEN Exit(4, "Unable to write on file!") /\ UNCHANGED slice
             ELSE /\ slice' = NextSlice(slice, build.K)
                  /\ pc' = "loop"
                  /\ UNCHANGED <<exitStatus, printed>>
    /\ UNCHANGED <<build, argv, objectType, n, gl, grid, headerLength,
                   nOfSlices>>

\* lines 235-254: the summary, fclose, free and the return from main
Finish ==
    /\ pc = "summary"
    /\ printed' = Append(printed,
          [msg |-> "Output file details",
           size |-> SizeofDouble * gl.nVoxel[X] * gl.nVoxel[Z] * gl.nVoxel[Y],
           width |-> gl.nVoxel[X], height |-> gl.nVoxel[Z],
           offset |-> headerLength, images |-> gl.nVoxel[Y]])
    /\ trace' = Append(trace, [op |-> "fclose"])
    /\ pc' = "exited"
    /\ exitStatus' = 0
    /\ UNCHANGED <<build, argv, objectType, n, gl, grid, stream,
                   headerLength, slice, nOfSlices>>

Next ==
    \/ Usage
    \/ ParseArgs
    \/ ResolveFromPixels
    \/ ResolveDefaults
    \/ Malloc
    \/ FopenOk
    \/ FopenFails
    \/ WriteHeader
    \/ LoopEnter
    \/ LoopExit
    \/ Generate
    \/ GenerateTrap
    \/ WriteChunk
    \/ Finish

Spec == Init /\ [][Next]_vars

\* main is one sequential thread: as long as a statement remains it runs
FairSpec == Spec /\ WF_vars(Next)

\* ------------------------------------------------- observations
DataWrites ==
    SelectSeq(trace, LAMBDA e : e.op = "fwrite" /\ e.what = "data")

HeaderWrites ==
    SelectSeq(trace, LAMBDA e : e.op = "fwrite" /\ e.what = "header")

Generates == SelectSeq(trace, LAMBDA e : e.op = "generate")

SummaryPrinted ==
    \E i \in 1..Len(printed) : printed[i].msg = "Output file details"

LoopDone == pc = "summary" \/ (pc = "exited" /\ exitStatus = 0)

AllocationFailed ==
    \E i \in 1..Len(trace) : trace[i].op = "malloc" /\ ~trace[i].ok

Min(a, b) == IF a < b THEN a ELSE b

\* the layer indices of a sequence of requests, in the order requested
RECURSIVE LayersOf(_)
LayersOf(q) ==
    IF q = <<>> THEN <<>>
    ELSE [i \in 1..Head(q).nOfSlices |-> Head(q).slice + i - 1]
         \o LayersOf(Tail(q))

RECURSIVE SumWritten(_)
SumWritten(q) == IF q = <<>> THEN 0 ELSE Head(q).written + SumWritten(Tail(q))

RECURSIVE SumLayers(_)
SumLayers(q) == IF q = <<>> THEN 0 ELSE Head(q).nOfSlices + SumLayers(Tail(q))

\* ------------------------------------------------------------ claims
\* C1: for a grid with nVoxel[X], nVoxel[Y], nVoxel[Z] >= 1 and any shape
\* selector, when the loop has ended and no fwrite returned short, the
\* layers handed to fwrite are 0, 1, ..., nVoxel[Y]-1 in this order, each
\* once, the number of doubles appended is nVoxel[X]*nVoxel[Y]*nVoxel[Z],
\* and the file's data part is the voxels 0 .. that number - 1 in order.
C1_EveryLayerOnceInOrder ==
    (/\ LoopDone
     /\ \A i \in Axes : gl.nVoxel[i] >= 1
     /\ ShortWrites(trace) = 0)
    => /\ LayersOf(DataWrites) = [i \in 1..gl.nVoxel[Y] |-> i - 1]
       /\ SumWritten(DataWrites)
            = gl.nVoxel[X] * gl.nVoxel[Y] * gl.nVoxel[Z]
       /\ Len(stream.data) = 1
       /\ stream.data[1].first = 0
       /\ stream.data[1].count
            = gl.nVoxel[X] * gl.nVoxel[Y] * gl.nVoxel[Z]

\* a run of the shipped build that needed three chunks, the last partial
C1_Witness ==
    /\ LoopDone
    /\ build.K = OBJ_BUFFER
    /\ \A i \in Axes : gl.nVoxel[i] >= 1
    /\ ShortWrites(trace) = 0
    /\ Len(DataWrites) = 3
    /\ DataWrites[3].nOfSlices < OBJ_BUFFER

\* C2 (as claimed): a data fwrite that returns less than requested ends the
\* run at once: it is the last call made, the process has exited with a
\* nonzero status and the summary is not printed.
C2_ShortDataWriteIsFatal ==
    \A i \in 1..Len(trace) :
        (/\ trace[i].op = "fwrite"
         /\ trace[i].what = "data"
         /\ trace[i].written < trace[i].requested)
        => /\ i = Len(trace)
           /\ pc = "exited"
           /\ exitStatus # 0
           /\ ~SummaryPrinted

\* C3 (as claimed): once the parameters are resolved with some
\* nVoxel[i] <= 0, the run neither prints the summary nor ends with
\* status 0.
C3_DegenerateGridFails ==
    (/\ pc \notin {"main", "resolve"}
     /\ \E i \in Axes : gl.nVoxel[i] <= 0)
    => /\ ~SummaryPrinted
       /\ pc # "summary"
       /\ ~(pc = "exited" /\ exitStatus = 0)

\* C4: when the loop has ended with no short fwrite, the file's data part
\* written chunk by chunk (K layers at a time) is the data part a single
\* call of the generator on layers [0, nVoxel[Y]) followed by a single
\* fwrite would have produced, the generator's requests tile that range
\* from 0 upward, and with K >= nVoxel[Y] there is exactly one request.
C4_ChunkedEqualsOnePass ==
    (/\ LoopDone
     /\ gl.nVoxel[Y] >= 1
     /\ ShortWrites(trace) = 0)
    => LET all == gl.nVoxel[X] * gl.nVoxel[Z] * gl.nVoxel[Y]
           buffer == [null |-> FALSE, capacity |-> all,
                      shape |-> "indeterminate", first |-> 0, filled |-> 0]
           onePass == AppendDoubles(<<>>,
                         GenerateSlice(buffer, Generates[1].shape,
                                       gl.nVoxel[Y], 0, gl),
                         all)
       IN  /\ stream.data = onePass
           /\ \A i \in 1..Len(Generates) :
                 Generates[i].offset
                   = SumLayers(SubSeq(Generates, 1, i - 1))
           /\ SumLayers(Generates) = gl.nVoxel[Y]
           /\ build.K >= gl.nVoxel[Y] => Len(Generates) = 1

\* a finished run in chunks of one layer, and one of the shipped build in
\* several chunks, are both among the runs; this is the first
C4_Witness ==
    /\ LoopDone
    /\ ShortWrites(trace) = 0
    /\ build.K = 1
    /\ Len(Generates) >= 3
    /\ stream.data # <<>>

\* C5: built with the header, fwrite of the header is called exactly once
\* for 16 ints on the empty file, after fopen succeeded and before every
\* data fwrite, and headerLength is 16*sizeof(int) from then on, also in the
\* summary; built RAW, no header fwrite is made, headerLength stays 0, the
\* file holds no header and the first data fwrite starts at offset 0.
C5_HeaderOnceBeforeData ==
    LET hdr == { i \in 1..Len(trace) :
                   trace[i].op = "fwrite" /\ trace[i].what = "header" }
        dat == { i \in 1..Len(trace) :
                   trace[i].op = "fwrite" /\ trace[i].what = "data" }
        opn == { i \in 1..Len(trace) :
                   trace[i].op = "fopen" /\ trace[i].ok }
    IN  /\ ~build.RAW =>
              /\ Cardinality(hdr) <= 1
              /\ \A i \in hdr : /\ trace[i].requested = HeaderInts
                                 /\ trace[i].offset = 0
                                 /\ \E o \in opn : o < i
              /\ \A j \in dat : \E i \in hdr : i < j
              /\ (pc \in {"loop", "generate", "fwrite"} \/ LoopDone)
                    => /\ Cardinality(hdr) = 1
                       /\ headerLength = HeaderInts * SizeofInt
              /\ \A i \in 1..Len(printed) :
                    printed[i].msg = "Output file details"
                      => printed[i].offset = HeaderInts * SizeofInt
        /\ build.RAW =>
              /\ hdr = {}
              /\ headerLength = 0
              /\ stream.header = <<>>
              /\ \A j \in dat :
                    (\A k \in dat : j <= k) => trace[j].offset = 0
              /\ \A i \in 1..Len(printed) :
                    printed[i].msg = "Output file details"
                      => printed[i].offset = 0

\* a header build that wrote the header and two chunks and printed the
\* summary
C5_Witness ==
    /\ ~build.RAW
    /\ SummaryPrinted
    /\ Len(HeaderWrites) = 1
    /\ Len(DataWrites) >= 2

\* nVoxel and nPlanes recomputed from a side length and voxel dimensions
GridMatches(osl, vx, vy, vz, nv, np) ==
    /\ nv = <<CDiv(osl, vx), CDiv(osl, vy), CDiv(osl, vz)>>
    /\ np = <<nv[1] + 1, nv[2] + 1, nv[3] + 1>>

\* C6: with or without the pixel count, when the header is written and
\* throughout the loop gl_nVoxel[i] = gl_objectSideLenght / gl_voxel?Dim and
\* gl_nPlanes[i] = gl_nVoxel[i] + 1 on all three axes, and a header that is
\* completely in the file decodes to fields that reproduce its own nVoxel
\* and nPlanes from its objectSideLength and voxel dimensions.
C6_GridFieldsConsistent ==
    /\ pc \in {"header", "loop", "generate", "fwrite", "summary"}
         => GridMatches(gl.objectSideLenght,
                        gl.voxelXDim, gl.voxelYDim, gl.voxelZDim,
                        <<gl.nVoxel[X], gl.nVoxel[Y], gl.nVoxel[Z]>>,
                        <<gl.nPlanes[X], gl.nPlanes[Y], gl.nPlanes[Z]>>)
    /\ Len(stream.header) = HeaderInts
         => LET h == stream.header IN
            GridMatches(h[4], h[8], h[9], h[10],
                        <<h[11], h[12], h[13]>>, <<h[14], h[15], h[16]>>)

\* the pixel count was given, changed the side length, and the complete
\* header is in the file while a chunk is being written
C6_Witness ==
    /\ pc = "fwrite"
    /\ argc > 3
    /\ gl.objectSideLenght # build.defaults.OBJECT_SIDE_LENGTH
    /\ gl.voxelXDim # gl.voxelYDim
    /\ Len(stream.header) = HeaderInts

\* the shapes by the names the claims use
SelectorTable(value) ==
    CASE value = 1 -> "CubeWithSphere"
      [] value = 2 -> "Sphere"
      [] value = 3 -> "Cube"
      [] OTHER -> "Cube"

\* a text that is a decimal numeral: an optional sign, then one or more
\* digits and nothing else
IsNumeral(s) ==
    LET body == IF s # <<>> /\ s[1] \in {"-", "+"} THEN Tail(s) ELSE s
    IN  body # <<>> /\ \A i \in 1..Len(body) : IsDigit(body[i])

\* the number a numeral denotes
NumeralValue(s) ==
    LET body == IF s[1] \in {"-", "+"} THEN Tail(s) ELSE s
        RECURSIVE Val(_, _)
        Val(k, acc) == IF k > Len(body) THEN acc
                       ELSE Val(k + 1, 10 * acc + DigitVal(body[k]))
    IN  IF s[1] = "-" THEN -Val(1, 0) ELSE Val(1, 0)

\* C7 (as claimed): the numerals 1, 2, 3 select CubeWithSphere, Sphere and
\* Cube; an absent selector, any other number and any text that is not a
\* number select Cube; every chunk of a run is generated with that shape.
C7_UnrecognisedSelectsCube ==
    LET expected ==
          IF argc > 2 /\ IsNumeral(argv[2])
          THEN SelectorTable(NumeralValue(argv[2]))
          ELSE "Cube"
    IN  \A i \in 1..Len(Generates) : Generates[i].shape = expected

\* C7 (amended): the selector text is read as atoi reads it: the integer
\* formed by its leading digits after optional white space and a sign, 0
\* when there are none.  1 selects CubeWithSphere, 2 Sphere, and an absent
\* selector or any other integer Cube; every chunk of a run is generated
\* with that shape and the file holds values of that shape only.
C7_SelectorReadByAtoi ==
    LET expected ==
          IF argc > 2 THEN SelectorTable(Atoi(argv[2])) ELSE "Cube"
    IN  /\ \A i \in 1..Len(Generates) : Generates[i].shape = expected
        /\ \A i \in 1..Len(stream.data) : stream.data[i].shape = expected

\* a run of several chunks whose selector is a digit followed by a letter
C7_Witness ==
    /\ argc > 2
    /\ argv[2] = <<"2", "a">>
    /\ Len(Generates) >= 2
    /\ Len(DataWrites) >= 2

\* C8 (as claimed): every failure ends the run with a nonzero status: a
\* wrong argument count with EXIT_FAILURE before fopen and before any
\* generation, a failed fopen with nothing in the file, a short write of
\* the header or of a chunk at once and without the summary; and the
\* statuses of the three kinds differ pairwise and are not zero.
C8_EveryFailureIsFatal ==
    LET failed == { i \in 1..Len(trace) :
                      \/ trace[i].op = "fopen" /\ ~trace[i].ok
                      \/ /\ trace[i].op = "fwrite"
                         /\ trace[i].written < trace[i].requested }
        msgs == { printed[i].msg : i \in 1..Len(printed) }
    IN  /\ "Usage" \in msgs
             => /\ pc = "exited" /\ exitStatus = EXIT_FAILURE
                /\ trace = <<>>
        /\ "Unable to open file!" \in msgs
             => /\ pc = "exited" /\ exitStatus = 2
                /\ stream = [header |-> <<>>, data |-> <<>>]
        /\ "Unable to write on file!" \in msgs
             => pc = "exited" /\ exitStatus \in {3, 4}
        /\ Cardinality({EXIT_FAILURE, 2, 3}) = 3
        /\ Cardinality({EXIT_FAILURE, 2, 4}) = 3
        /\ 0 \notin {EXIT_FAILURE, 2, 3, 4}
        /\ \A i \in failed :
              /\ ~SummaryPrinted
              /\ pc # "summary"
              /\ pc = "exited" => exitStatus # 0
              /\ trace[i].op = "fwrite"
                   => i = Len(trace) /\ pc = "exited"

\* The loop invariant of C9, as a state predicate: in every iteration
\* 0 <= slice < nVoxel[Y] and slice is the number
\* of layers already handed to fwrite (layers 0 .. slice-1, and with no
\* short write exactly those voxels are in the file); the iteration
\* generates and hands to fwrite nOfSlices = min(K, nVoxel[Y] - slice)
\* layers, 1 <= nOfSlices <= K, that is nVoxel[X]*nVoxel[Z]*nOfSlices
\* doubles, no more than the nVoxel[X]*nVoxel[Z]*K the buffer was
\* allocated for; and the loop is left only with slice >= nVoxel[Y].
LoopInvariant ==
    LET perLayer == gl.nVoxel[X] * gl.nVoxel[Z]
        inBody == pc \in {"generate", "fwrite"}
        atHead == pc = "loop" /\ slice < gl.nVoxel[Y]
    IN  /\ (inBody \/ atHead) =>
              /\ 0 <= slice /\ slice < gl.nVoxel[Y]
              /\ SumLayers(DataWrites) = slice
              /\ LayersOf(DataWrites) = [i \in 1..slice |-> i - 1]
              /\ ShortWrites(trace) = 0 =>
                    stream.data = IF slice * perLayer = 0 THEN <<>>
                                  ELSE <<[shape |-> ShapeOf(objectType),
                                          first |-> 0,
                                          count |-> slice * perLayer]>>
        /\ inBody =>
              /\ nOfSlices = Min(build.K, gl.nVoxel[Y] - slice)
              /\ 1 <= nOfSlices /\ nOfSlices <= build.K
              /\ perLayer * nOfSlices <= perLayer * build.K
              /\ ~grid.null => perLayer * nOfSlices <= grid.capacity
        /\ (pc = "fwrite" /\ ~grid.null) =>
              /\ grid.filled = perLayer * nOfSlices
              /\ grid.first = perLayer * slice
        /\ \A i \in 1..Len(DataWrites) :
              /\ DataWrites[i].requested = perLayer * DataWrites[i].nOfSlices
              /\ DataWrites[i].written <= perLayer * build.K
        /\ LoopDone => slice >= gl.nVoxel[Y]

\* C9: in every iteration of the generation loop slice is the index of
\* the next layer not yet handed to fwrite, 0 <= slice < nVoxel[Y], the
\* iteration generates and writes nOfSlices = min(K, nVoxel[Y] - slice)
\* layers with 1 <= nOfSlices <= K, never more doubles than the buffer was
\* allocated for (LoopInvariant, in every state), and a run that is in the
\* loop leaves it: it reaches the summary with slice >= nVoxel[Y] or the
\* process ends.
C9_LoopInvariantAndExit ==
    /\ []LoopInvariant
    /\ (pc \in {"loop", "generate", "fwrite"}
          ~> pc \in {"summary", "exited", "crashed"})

\* the shipped build in its third chunk, which is shorter than OBJ_BUFFER
C9_Witness ==
    /\ pc = "fwrite"
    /\ build.K = OBJ_BUFFER
    /\ slice = 2 * OBJ_BUFFER
    /\ nOfSlices < OBJ_BUFFER
    /\ ~grid.null

\* C10 (as claimed): after malloc has returned NULL no generator is
\* called, no chunk is written and the summary is not printed: the run
\* ends with a failure before the loop.
C10_AllocationFailureStops ==
    AllocationFailed
    => /\ pc \notin {"generate", "fwrite", "summary"}
       /\ Generates = <<>>
       /\ DataWrites = <<>>
       /\ ~SummaryPrinted
       /\ ~(pc = "exited" /\ exitStatus = 0)

====
